---- MODULE Spec2Model ----
(***************************************************************************)
(* Storage layer of the CP23 device: the file-record pool of littlefs.c    *)
(* and the IS25LP080D serial NOR-flash driver.                             *)
(*                                                                         *)
(* SpecPool  : serialized calls of CP23_GetFileStructure and               *)
(*             CP23_ReleaseFileStructure, with holders writing the public  *)
(*             fields of the records they hold.                            *)
(* SpecFlash : the driver's read / program / erase / sync, one action per  *)
(*             statement that touches chip-select, the SPI transport, the  *)
(*             software timer or the diagnostic hooks.                     *)
(***************************************************************************)
EXTENDS Integers, Sequences, FiniteSets, TLC

(***************************************************************************)
(* Bounds of the model.                                                    *)
(***************************************************************************)
\* handles the callers of the pool keep at the same time
MaxOutstanding == 10
\* passes of the busy-wait loop followed in one call
MaxPolls == 3
MaxRecordSize == 32
\* milliseconds between two readings of the clock that differ
TickMs == 1000

(***************************************************************************)
(* Program constants of the pool.                                          *)
(***************************************************************************)
CP23LFS_FILES_MAX == 8
CP23LFS_ATTR_NUM == 7
CP23LFS_DATE_LEN == 11
CP23LFS_TIME_LEN == 9
CP23LFS_OWNER_LEN == 32
CP23LFS_COMPANY_LEN == 32
\* set outside the two pool files; only its being a byte count matters here
CP23LFS_CACHE_SIZE == 16

(***************************************************************************)
(* Program constants of the driver.                                        *)
(***************************************************************************)
CMD_READ == 3
CMD_WRITE_ENABLE == 6
CMD_PAGE_PROGRAM == 2
CMD_SECTOR_ERASE == 32
CMD_BLOCK_ERASE == 216
CMD_READ_STATUS == 5
IS25LP080D_ERROR == -5
IS25LP080D_BUSY_TIMEOUT_MSEC == 2000

VARIABLES
    cp23lsf_file,   \* the pool: slot index -> file record
    held,           \* slot index -> number of handles returned and not yet released
    last,           \* the last pool call: operation, result, state before it
    pc,             \* the driver's position: "idle" or <function><line>
    op,             \* the driver call in progress, or the last one that returned
    addr,           \* its addr argument
    size,           \* its size argument
    cmd,            \* its cmd[4] buffer
    memOpcode,      \* the argument of IS25LP080D_WaitWhileBusy
    status,         \* the status byte of IS25LP080D_WaitWhileBusy
    busyTimeout,    \* the software timer of IS25LP080D_WaitWhileBusy
    polls,          \* passes of the busy-wait loop begun in this call
    cs,             \* the chip-select line is asserted
    trace,          \* chip-select, transport and hook calls of this call, in order
    ret,            \* the value the last call returned
    now,            \* milliseconds since the call began
    authByte,       \* an authorization byte handed to the decoding macros
    decoded,        \* the four values the macros gave for it, once applied
    ctx,            \* execution context -> its position and locals in acquire
    raced,          \* two contexts stood between the free check and the mark of one slot
    recSize,        \* the size in bytes of a record handed to the clearing loops
    recBytes,       \* byte offset -> the byte of that record
    cleared         \* the clearing loops have run on it

poolVars == <<cp23lsf_file, held, last>>

callVars == <<op, addr, size, cmd>>

waitVars == <<memOpcode, status, busyTimeout, polls>>

flashVars == <<pc, callVars, waitVars, cs, trace, ret, now>>

authVars == <<authByte, decoded>>

raceVars == <<ctx, raced>>

clearVars == <<recSize, recBytes, cleared>>

otherVars == <<authVars, raceVars, clearVars>>

vars == <<poolVars, flashVars, otherVars>>

(***************************************************************************)
(* Layout of cp23lfs_fileStructure_t, members in declaration order.  The   *)
(* members of the nested struct `system` are listed in place; `system`     *)
(* itself is 4-aligned because it holds pointers.  The sizes of the        *)
(* filesystem library's types are those of the 32-bit target.              *)
(***************************************************************************)
Members ==
    << [name |-> "dId",           size |-> 2,                    align |-> 2],
       [name |-> "date",          size |-> CP23LFS_DATE_LEN,     align |-> 1],
       [name |-> "time",          size |-> CP23LFS_TIME_LEN,     align |-> 1],
       [name |-> "flags",         size |-> 1,                    align |-> 1],
       [name |-> "authorization", size |-> 1,                    align |-> 1],
       [name |-> "owner",         size |-> CP23LFS_OWNER_LEN,    align |-> 1],
       [name |-> "company",       size |-> CP23LFS_COMPANY_LEN,  align |-> 1],
       [name |-> "size",          size |-> 4,                    align |-> 4],
       [name |-> "allocated",     size |-> 1,                    align |-> 4],
       [name |-> "buffer",        size |-> CP23LFS_CACHE_SIZE,   align |-> 1],
       [name |-> "descr",         size |-> CP23LFS_ATTR_NUM * 12, align |-> 4],
       [name |-> "fileCfg",       size |-> 12,                   align |-> 4],
       [name |-> "file",          size |-> 84,                   align |-> 4] >>

FieldNames == {Members[i].name : i \in DOMAIN Members}

\* the fields an application may write through its handle
PublicFields ==
    {"dId", "date", "time", "flags", "authorization", "owner", "company", "size"}

AlignUp(n, a) == ((n + a - 1) \div a) * a

RECURSIVE MemberOffset(_)
MemberOffset(i) ==
    IF i = 1 THEN 0
    ELSE AlignUp(MemberOffset(i - 1) + Members[i - 1].size, Members[i].align)

MemberIndex(name) == CHOOSE i \in DOMAIN Members : Members[i].name = name

\* offsetof(cp23lfs_fileStructure_t, name)
offsetof(name) == MemberOffset(MemberIndex(name))

\* sizeof(cp23lsf_file[0].name)
sizeofMember(name) == Members[MemberIndex(name)].size

\* sizeof(cp23lfs_fileStructure_t): the end of the last member, padded to the
\* alignment of the struct
sizeofFileStructure ==
    AlignUp(MemberOffset(Len(Members)) + Members[Len(Members)].size, 4)

\* the byte offsets a member occupies
MemberBytes(name) == offsetof(name) .. (offsetof(name) + sizeofMember(name) - 1)

(***************************************************************************)
(* Pointers into the pool: a slot and a byte offset inside its record.     *)
(***************************************************************************)
NoSlot == -1

\* the execution contexts that may call into the pool
Contexts == {1, 2}

\* a context outside CP23_GetFileStructure
IdleContext == [pc |-> "idle", cnt |-> 0, retVal |-> NoSlot]

NULL == [slot |-> NoSlot, off |-> 0]

Ptr(slot, off) == [slot |-> slot, off |-> off]

Slots == 0 .. (CP23LFS_FILES_MAX - 1)

AttrIds == 0 .. (CP23LFS_ATTR_NUM - 1)

\* the members named by the initialisers of parOffset and parSize, in order
AttrMember ==
    [cnt \in AttrIds |->
        <<"dId", "date", "time", "flags", "authorization", "owner", "company">>[cnt + 1]]

parOffset == [cnt \in AttrIds |-> offsetof(AttrMember[cnt])]

parSize == [cnt \in AttrIds |-> sizeofMember(AttrMember[cnt])]

(***************************************************************************)
(* A record whose bytes are all zero, field by field.                      *)
(***************************************************************************)
ZeroAttr == [type |-> 0, buffer |-> NULL, size |-> 0]

ZeroCfg == [attrs |-> NULL, attr_count |-> 0, buffer |-> NULL]

ZeroValue(name) ==
    CASE name = "allocated" -> FALSE
      [] name = "descr"     -> [cnt \in AttrIds |-> ZeroAttr]
      [] name = "fileCfg"   -> ZeroCfg
      [] OTHER              -> 0

ZeroRecord == [name \in FieldNames |-> ZeroValue(name)]

(***************************************************************************)
(* CP23_GetFileStructure, statement group by statement group.              *)
(***************************************************************************)
\* the scan that keeps the last free slot it meets
ScanFree_Last(pool, cnt) ==
    LET free == {s \in cnt .. (CP23LFS_FILES_MAX - 1) : pool[s].allocated = FALSE}
    IN  IF free = {} THEN NoSlot
        ELSE CHOOSE s \in free : \A t \in free : t <= s

\* the scan: the first slot, from cnt upwards, whose allocated flag is false
RECURSIVE ScanFree(_, _)
ScanFree(pool, cnt) ==
    IF cnt >= CP23LFS_FILES_MAX THEN NoSlot
    ELSE IF pool[cnt].allocated = FALSE THEN cnt
    ELSE ScanFree(pool, cnt + 1)

\* the mark, made when the scan finds a slot
MarkAllocated(rec) == [rec EXCEPT !.allocated = TRUE]

\* the byte offsets written by the two clearing loops for a record of S bytes:
\* S / 4 words from the start of the record, then S % 4 bytes from the start
\* of the record
ClearedOffsets_NoWords(S) == {cnt : cnt \in 0 .. ((S % 4) - 1)}

ClearedOffsets(S) ==
    {4 * cnt + b : cnt \in 0 .. ((S \div 4) - 1), b \in 0 .. 3}
        \cup {cnt : cnt \in 0 .. ((S % 4) - 1)}

\* the record after the clearing loops: a member all of whose bytes were
\* written reads as zero, the others keep their value
ClearedMembers ==
    {name \in FieldNames : MemberBytes(name) \subseteq ClearedOffsets(sizeofFileStructure)}

ClearRecord(rec) ==
    [name \in FieldNames |->
        IF name \in ClearedMembers THEN ZeroValue(name) ELSE rec[name]]

\* the attribute description loop
InitDescr(slot, rec) ==
    [rec EXCEPT !.descr =
        [cnt \in AttrIds |->
            [type   |-> cnt,
             buffer |-> Ptr(slot, parOffset[cnt]),
             size   |-> parSize[cnt]]]]

\* the file configuration
InitFileCfg(slot, rec) ==
    [rec EXCEPT !.fileCfg =
        [attrs      |-> Ptr(slot, offsetof("descr")),
         attr_count |-> CP23LFS_ATTR_NUM,
         buffer     |-> Ptr(slot, offsetof("buffer"))]]

\* the whole function on a pool: the slot returned (NoSlot for a NULL return)
\* and the pool afterwards
GetFileStructure(pool) ==
    LET retVal == ScanFree(pool, 0)
    IN  [retVal |-> retVal,
         pool   |-> IF retVal = NoSlot THEN pool
                    ELSE [pool EXCEPT ![retVal] =
                            InitFileCfg(retVal,
                                InitDescr(retVal, ClearRecord(MarkAllocated(@))))]]

Outstanding(h) ==
    LET RECURSIVE Sum(_)
        Sum(S) == IF S = {} THEN 0
                  ELSE LET s == CHOOSE x \in S : TRUE IN h[s] + Sum(S \ {s})
    IN  Sum(Slots)

\* the assertion on a handle that names an allocated slot as well
ReleaseFileStructure_CheckAllocated(pool, h) ==
    IF h = NoSlot \/ ~pool[h].allocated
    THEN [failed |-> TRUE, pool |-> pool]
    ELSE [failed |-> FALSE, pool |-> [pool EXCEPT ![h].allocated = FALSE]]

\* the release that clears the record as well
ReleaseFileStructure_Zeroing(pool, h) ==
    IF h = NoSlot
    THEN [failed |-> TRUE, pool |-> pool]
    ELSE [failed |-> FALSE, pool |-> [pool EXCEPT ![h] = ZeroRecord]]

\* CP23_ReleaseFileStructure on a pool and a handle (NoSlot for NULL):
\* whether assert_param(cp23lfs_file) fails, and the pool afterwards
ReleaseFileStructure(pool, h) ==
    IF h = NoSlot
    THEN [failed |-> TRUE, pool |-> pool]
    ELSE [failed |-> FALSE, pool |-> [pool EXCEPT ![h].allocated = FALSE]]

(***************************************************************************)
(* The pool's operations.                                                  *)
(***************************************************************************)
InitPool ==
    /\ cp23lsf_file = [s \in Slots |-> ZeroRecord]
    /\ held = [s \in Slots |-> 0]
    /\ last = [op |-> "none", ret |-> NoSlot, arg |-> NoSlot, failed |-> FALSE,
               prevOp |-> "none",
               pre |-> [s \in Slots |-> ZeroRecord],
               preHeld |-> [s \in Slots |-> 0]]

CP23_GetFileStructure ==
    /\ Outstanding(held) < MaxOutstanding
    /\ LET r == GetFileStructure(cp23lsf_file)
       IN  /\ cp23lsf_file' = r.pool
           /\ held' = IF r.retVal = NoSlot THEN held
                      ELSE [held EXCEPT ![r.retVal] = @ + 1]
           /\ last' = [op |-> "acquire", ret |-> r.retVal, arg |-> NoSlot,
                       failed |-> FALSE,
                       prevOp |-> last.op, pre |-> cp23lsf_file, preHeld |-> held]
    /\ UNCHANGED <<flashVars, otherVars>>

\* called with a handle the caller got from CP23_GetFileStructure
CP23_ReleaseFileStructure ==
    \E s \in Slots :
        /\ held[s] > 0
        /\ LET r == ReleaseFileStructure(cp23lsf_file, s)
           IN  /\ cp23lsf_file' = r.pool
               /\ last' = [op |-> "release", ret |-> NoSlot, arg |-> s,
                           failed |-> r.failed,
                           prevOp |-> last.op, pre |-> cp23lsf_file, preHeld |-> held]
        /\ held' = [held EXCEPT ![s] = @ - 1]
        /\ UNCHANGED <<flashVars, otherVars>>

\* a slot that was handed out at some time: its file configuration was built
HandedOut(s) == cp23lsf_file[s].fileCfg.attr_count = CP23LFS_ATTR_NUM

\* called again with a handle that was released already
CP23_ReleaseFileStructure_Again ==
    \E s \in Slots :
        /\ HandedOut(s)
        /\ held[s] = 0
        /\ LET r == ReleaseFileStructure(cp23lsf_file, s)
           IN  /\ cp23lsf_file' = r.pool
               /\ last' = [op |-> "release", ret |-> NoSlot, arg |-> s,
                           failed |-> r.failed,
                           prevOp |-> last.op, pre |-> cp23lsf_file, preHeld |-> held]
        /\ UNCHANGED <<held, flashVars, otherVars>>

\* called with NULL: assert_param stops the call where assertions are
\* compiled in; where they are not, the store goes through a null pointer,
\* outside the pool
CP23_ReleaseFileStructure_Null ==
    \E full_assert \in BOOLEAN :
        /\ last' = [op |-> "release", ret |-> NoSlot, arg |-> NoSlot,
                    failed |-> (full_assert /\ ReleaseFileStructure(cp23lsf_file, NoSlot).failed),
                    prevOp |-> last.op, pre |-> cp23lsf_file, preHeld |-> held]
        /\ UNCHANGED <<cp23lsf_file, held, flashVars, otherVars>>

\* a holder stores a non-zero value in a public field of its record
WriteField ==
    \E s \in Slots, name \in PublicFields :
        /\ held[s] > 0
        /\ cp23lsf_file[s][name] = 0
        /\ cp23lsf_file' = [cp23lsf_file EXCEPT ![s][name] = 1]
        /\ last' = [op |-> "write", ret |-> NoSlot, arg |-> s,
                    failed |-> FALSE,
                    prevOp |-> last.op, pre |-> cp23lsf_file, preHeld |-> held]
        /\ UNCHANGED <<held, flashVars, otherVars>>

NextPool ==
    \/ CP23_GetFileStructure
    \/ CP23_ReleaseFileStructure
    \/ WriteField

\* the pool with callers that also release a handle twice or pass NULL
NextPoolCallers ==
    \/ CP23_GetFileStructure
    \/ CP23_ReleaseFileStructure
    \/ WriteField
    \/ CP23_ReleaseFileStructure_Again
    \/ CP23_ReleaseFileStructure_Null

(***************************************************************************)
(* The flash driver.  Every chip-select, transport and hook call is        *)
(* recorded in `trace` as an event                                         *)
(*    [e, buf, data, n, ok]                                                *)
(* e    : "cs_en", "cs_dis", "tx", "rx", "rtt", "mee"                      *)
(* buf  : the C object passed ("cmd", "wren", "buffer", "status")          *)
(* data : the bytes of a command transmitted, the status byte received,    *)
(*        or the opcode argument of a hook                                 *)
(* n    : the byte count passed                                            *)
(* ok   : the result of a transport call; for "mee" the second argument    *)
(*        of ManageEventError                                              *)
(***************************************************************************)
Event(e, buf, data, n, ok) == [e |-> e, buf |-> buf, data |-> data, n |-> n, ok |-> ok]

\* the arguments the filesystem passes, inside the asserted ranges
Addrs == {74565, 1048575}

Sizes == {1, 4096, 65536}

\* the status bytes the device may return: bit 0 is write-in-progress
StatusBytes == {0, 1, 2, 3}

\* ((split32_t)addr).b[SPLIT_Tk]: byte k of the address, byte 0 the least
\* significant
SplitByte(a, k) ==
    CASE k = 0 -> a % 256
      [] k = 1 -> (a \div 256) % 256
      [] k = 2 -> (a \div 65536) % 256

\* status & 0x01
WIP(st) == st % 2 = 1

\* LoadSWTimer(&t): the timer remembers the current time
LoadSWTimer(t) == t

\* SWTimerTimeout(&t, timeout, mSec, NULL): timeout milliseconds have passed
\* since the timer was loaded
SWTimerTimeout(loaded, t, timeout) == t - loaded >= timeout

InitFlash ==
    /\ pc = "idle"
    /\ op = "none"
    /\ addr = 0
    /\ size = 0
    /\ cmd = <<>>
    /\ memOpcode = 0
    /\ status = 0
    /\ busyTimeout = 0
    /\ polls = 0
    /\ cs = FALSE
    /\ trace = <<>>
    /\ ret = 0
    /\ now = 0

(***************************************************************************)
(* The authorization decoding macros of littlefs.h, on a byte.             *)
(***************************************************************************)
\* a & b on naturals
RECURSIVE BitAnd(_, _)
BitAnd(a, b) ==
    IF a = 0 \/ b = 0 THEN 0
    ELSE (a % 2) * (b % 2) + 2 * BitAnd(a \div 2, b \div 2)

\* a >> n on naturals
RECURSIVE ShiftRight(_, _)
ShiftRight(a, n) == IF n = 0 THEN a ELSE ShiftRight(a \div 2, n - 1)

LfsUserAuth(x) == BitAnd(x, 3)

LfsMNFAuth(x) == BitAnd(ShiftRight(x, 2), 3)

\* the BP field taken one bit too low
LfsBPAuth_Shift3(x) == BitAnd(ShiftRight(x, 3), 3)

LfsBPAuth(x) == BitAnd(ShiftRight(x, 4), 3)

LfsSysAuth(x) == BitAnd(ShiftRight(x, 6), 3)

\* the values of the authorization member, a uint8_t
AuthBytes == 0 .. 255

NotDecoded == [done |-> FALSE, user |-> 0, mnf |-> 0, bp |-> 0, sys |-> 0]

InitAuth ==
    /\ authByte = 0
    /\ decoded = NotDecoded

\* the four macros applied to the byte
DecodeAuthorization ==
    /\ ~decoded.done
    /\ decoded' = [done |-> TRUE,
                   user |-> LfsUserAuth(authByte),
                   mnf  |-> LfsMNFAuth(authByte),
                   bp   |-> LfsBPAuth(authByte),
                   sys  |-> LfsSysAuth(authByte)]
    /\ UNCHANGED <<authByte, poolVars, flashVars, raceVars, clearVars>>

NextAuth == DecodeAuthorization

InitRace ==
    /\ ctx = [c \in Contexts |-> IdleContext]
    /\ raced = NoSlot

(***************************************************************************)
(* The two clearing loops of CP23_GetFileStructure on a record of any      *)
(* size, byte by byte.                                                     *)
(***************************************************************************)
\* the record sizes tried: the small ones and that of the file structure
RecordSizes == (1 .. MaxRecordSize) \cup {sizeofFileStructure}

\* what a byte of a record in use may hold
DirtyBytes == {1, 255}

\* the pool's records before any use: static storage, all zero
InitClear ==
    /\ recSize = sizeofFileStructure
    /\ recBytes = [o \in 0 .. (sizeofFileStructure - 1) |-> 0]
    /\ cleared = FALSE

\* both loops run on the record
ClearLoops ==
    /\ ~cleared
    /\ recBytes' = [o \in DOMAIN recBytes |->
                     IF o \in ClearedOffsets(recSize) THEN 0 ELSE recBytes[o]]
    /\ cleared' = TRUE
    /\ UNCHANGED <<recSize, poolVars, flashVars, authVars, raceVars>>

NextClear == ClearLoops

Init == InitPool /\ InitFlash /\ InitAuth /\ InitRace /\ InitClear

(***************************************************************************)
(* Statement shapes shared by the driver's functions.                      *)
(***************************************************************************)
\* entry of a public function: arguments taken, locals initialised
Enter(o, a, n, c, to) ==
    /\ pc = "idle"
    /\ op' = o
    /\ addr' = a
    /\ size' = n
    /\ cmd' = c
    /\ memOpcode' = 0
    /\ status' = 0
    /\ busyTimeout' = 0
    /\ polls' = 0
    /\ trace' = <<>>
    /\ now' = 0
    /\ pc' = to
    /\ UNCHANGED <<cs, ret, poolVars, otherVars>>

\* SPI_CS_Enable(SPI1_ID);
SPI_CS_Enable(from, to) ==
    /\ pc = from
    /\ cs' = TRUE
    /\ trace' = Append(trace, Event("cs_en", "", <<>>, 0, TRUE))
    /\ pc' = to
    /\ UNCHANGED <<callVars, waitVars, ret, now, poolVars, otherVars>>

\* SPI_CS_Disable(SPI1_ID);
SPI_CS_Disable(from, to) ==
    /\ pc = from
    /\ cs' = FALSE
    /\ trace' = Append(trace, Event("cs_dis", "", <<>>, 0, TRUE))
    /\ pc' = to
    /\ UNCHANGED <<callVars, waitVars, ret, now, poolVars, otherVars>>

\* if (!SPI_Transmit(line, buf, n)) { ... }
SPI_Transmit(from, buf, data, n, okTo, failTo) ==
    /\ pc = from
    /\ \E ok \in BOOLEAN :
        /\ trace' = Append(trace, Event("tx", buf, data, n, ok))
        /\ pc' = IF ok THEN okTo ELSE failTo
    /\ UNCHANGED <<callVars, waitVars, cs, ret, now, poolVars, otherVars>>

\* if (!SPI_Receive(line, buffer, size)) { ... }
SPI_Receive(from, buf, n, okTo, failTo) ==
    /\ pc = from
    /\ \E ok \in BOOLEAN :
        /\ trace' = Append(trace, Event("rx", buf, <<>>, n, ok))
        /\ pc' = IF ok THEN okTo ELSE failTo
    /\ UNCHANGED <<callVars, waitVars, cs, ret, now, poolVars, otherVars>>

\* SPI_CS_Disable(SPI1_ID); return v;
DisableAndReturn(from, v) ==
    /\ pc = from
    /\ cs' = FALSE
    /\ trace' = Append(trace, Event("cs_dis", "", <<>>, 0, TRUE))
    /\ ret' = v
    /\ pc' = "idle"
    /\ UNCHANGED <<callVars, waitVars, now, poolVars, otherVars>>

\* return (IS25LP080D_WaitWhileBusy(opcode)); up to the locals' initialisers
CallWaitWhileBusy(from, opcode) ==
    /\ pc = from
    /\ memOpcode' = opcode
    /\ status' = 0
    /\ pc' = "Wait173"
    /\ UNCHANGED <<callVars, busyTimeout, polls, cs, trace, ret, now, poolVars, otherVars>>

(***************************************************************************)
(* IS25LP080D_Read                                                         *)
(***************************************************************************)
\* the read command with the address bytes least-significant first
IS25LP080D_Read_LsbFirst ==
    \E a \in Addrs, n \in Sizes :
        Enter("read", a, n,
              <<CMD_READ, SplitByte(a, 0), SplitByte(a, 1), SplitByte(a, 2)>>,
              "Read57")

IS25LP080D_Read ==
    \E a \in Addrs, n \in Sizes :
        Enter("read", a, n,
              <<CMD_READ, SplitByte(a, 2), SplitByte(a, 1), SplitByte(a, 0)>>,
              "Read57")

Read57 == SPI_CS_Enable("Read57", "Read58")

Read58 == SPI_Transmit("Read58", "cmd", cmd, Len(cmd), "Read63", "Read60")

Read60 == DisableAndReturn("Read60", IS25LP080D_ERROR)

\* the receive whose failure is not looked at
Read63_Unchecked == SPI_Receive("Read63", "buffer", size, "Read68", "Read68")

Read63 == SPI_Receive("Read63", "buffer", size, "Read68", "Read65")

Read65 == DisableAndReturn("Read65", IS25LP080D_ERROR)

Read68 == DisableAndReturn("Read68", 0)

(***************************************************************************)
(* IS25LP080D_Program                                                      *)
(***************************************************************************)
IS25LP080D_Program ==
    \E a \in Addrs, n \in Sizes :
        Enter("program", a, n,
              <<CMD_PAGE_PROGRAM, SplitByte(a, 2), SplitByte(a, 1), SplitByte(a, 0)>>,
              "Program84")

Program84 == SPI_CS_Enable("Program84", "Program85")

\* the write-enable left in the bracket of the command that follows
Program85_SameBracket ==
    SPI_Transmit("Program85", "wren", <<CMD_WRITE_ENABLE>>, 1, "Program93", "Program87")

Program85 ==
    SPI_Transmit("Program85", "wren", <<CMD_WRITE_ENABLE>>, 1, "Program90", "Program87")

Program87 == DisableAndReturn("Program87", IS25LP080D_ERROR)

Program90 == SPI_CS_Disable("Program90", "Program92")

Program92 == SPI_CS_Enable("Program92", "Program93")

Program93_Continue ==
    SPI_Transmit("Program93", "cmd", cmd, Len(cmd), "Program98", "Program98")

Program93 == SPI_Transmit("Program93", "cmd", cmd, Len(cmd), "Program98", "Program95")

Program95 == DisableAndReturn("Program95", IS25LP080D_ERROR)

Program98 == SPI_Transmit("Program98", "buffer", <<>>, size, "Program103", "Program100")

Program100 == DisableAndReturn("Program100", IS25LP080D_ERROR)

Program103 == SPI_CS_Disable("Program103", "Program105")

Program105 == CallWaitWhileBusy("Program105", CMD_PAGE_PROGRAM)

(***************************************************************************)
(* IS25LP080D_Erase                                                        *)
(***************************************************************************)
\* the entry without the else branch: an unsupported size goes on with cmd[0] = 0
IS25LP080D_Erase_NoReject ==
    \E a \in Addrs, n \in Sizes :
        Enter("erase", a, n,
              <<IF n = 4096 THEN CMD_SECTOR_ERASE
                ELSE IF n = 65536 THEN CMD_BLOCK_ERASE ELSE 0,
                SplitByte(a, 2), SplitByte(a, 1), SplitByte(a, 0)>>,
              "Erase131")

\* entry and the choice of the command by size; an unsupported size returns
\* at once
IS25LP080D_Erase ==
    \E a \in Addrs, n \in Sizes :
        IF n = 4096
        THEN Enter("erase", a, n,
                   <<CMD_SECTOR_ERASE, SplitByte(a, 2), SplitByte(a, 1), SplitByte(a, 0)>>,
                   "Erase131")
        ELSE IF n = 65536
        THEN Enter("erase", a, n,
                   <<CMD_BLOCK_ERASE, SplitByte(a, 2), SplitByte(a, 1), SplitByte(a, 0)>>,
                   "Erase131")
        ELSE /\ Enter("erase", a, n,
                      <<0, SplitByte(a, 2), SplitByte(a, 1), SplitByte(a, 0)>>,
                      "idle")
             /\ ret' = IS25LP080D_ERROR

Erase131 == SPI_CS_Enable("Erase131", "Erase132")

Erase132 ==
    SPI_Transmit("Erase132", "wren", <<CMD_WRITE_ENABLE>>, 1, "Erase137", "Erase134")

Erase134 == DisableAndReturn("Erase134", IS25LP080D_ERROR)

Erase137 == SPI_CS_Disable("Erase137", "Erase139")

Erase139 == SPI_CS_Enable("Erase139", "Erase140")

Erase140 == SPI_Transmit("Erase140", "cmd", cmd, Len(cmd), "Erase145", "Erase142")

Erase142 == DisableAndReturn("Erase142", IS25LP080D_ERROR)

Erase145 == SPI_CS_Disable("Erase145", "Erase147")

Erase147_Sector == CallWaitWhileBusy("Erase147", CMD_SECTOR_ERASE)

\* cmd[0] of the C array is the first element of cmd
Erase147 == CallWaitWhileBusy("Erase147", cmd[1])

(***************************************************************************)
(* IS25LP080D_Sync                                                         *)
(***************************************************************************)
IS25LP080D_Sync ==
    /\ Enter("sync", 0, 0, <<>>, "idle")
    /\ ret' = 0

(***************************************************************************)
(* IS25LP080D_WaitWhileBusy                                                *)
(***************************************************************************)
\* LoadSWTimer(&busyTimeout);
Wait173 ==
    /\ pc = "Wait173"
    /\ busyTimeout' = LoadSWTimer(now)
    /\ pc' = "Wait176"
    /\ UNCHANGED <<callVars, memOpcode, status, polls, cs, trace, ret, now, poolVars, otherVars>>

\* the loop without its timeout test
Wait176_NoTimeout ==
    /\ pc = "Wait176"
    /\ polls < MaxPolls
    /\ polls' = polls + 1
    /\ pc' = "Wait182"
    /\ UNCHANGED <<callVars, memOpcode, status, busyTimeout, cs, trace, ret, now, poolVars, otherVars>>

\* do { if (SWTimerTimeout(&busyTimeout, IS25LP080D_BUSY_TIMEOUT_MSEC, mSec, NULL))
Wait176 ==
    /\ pc = "Wait176"
    /\ IF SWTimerTimeout(busyTimeout, now, IS25LP080D_BUSY_TIMEOUT_MSEC)
       THEN /\ pc' = "Wait178"
            /\ UNCHANGED polls
       ELSE /\ polls < MaxPolls
            /\ polls' = polls + 1
            /\ pc' = "Wait182"
    /\ UNCHANGED <<callVars, memOpcode, status, busyTimeout, cs, trace, ret, now, poolVars, otherVars>>

\* RTT_Printf(RTT_EC_IS25LP080D_TIMEOUT, memOpcode);
Wait178 ==
    /\ pc = "Wait178"
    /\ trace' = Append(trace, Event("rtt", "", <<memOpcode>>, 0, TRUE))
    /\ pc' = "Wait179"
    /\ UNCHANGED <<callVars, waitVars, cs, ret, now, poolVars, otherVars>>

\* ManageEventError(EC_IS25LP080D_TIMEOUT, true, memOpcode);
Wait179 ==
    /\ pc = "Wait179"
    /\ trace' = Append(trace, Event("mee", "", <<memOpcode>>, 0, TRUE))
    /\ pc' = "Wait180"
    /\ UNCHANGED <<callVars, waitVars, cs, ret, now, poolVars, otherVars>>

\* return IS25LP080D_ERROR;
Wait180 ==
    /\ pc = "Wait180"
    /\ ret' = IS25LP080D_ERROR
    /\ pc' = "idle"
    /\ UNCHANGED <<callVars, waitVars, cs, trace, now, poolVars, otherVars>>

Wait182 == SPI_CS_Enable("Wait182", "Wait183")

Wait183 ==
    SPI_Transmit("Wait183", "status", <<CMD_READ_STATUS>>, 1, "Wait188", "Wait185")

\* the failed status transmit reported like a timeout
Wait185_Reported ==
    /\ pc = "Wait185"
    /\ cs' = FALSE
    /\ trace' = Append(trace, Event("cs_dis", "", <<>>, 0, TRUE))
    /\ pc' = "Wait178"
    /\ UNCHANGED <<callVars, waitVars, ret, now, poolVars, otherVars>>

Wait185 == DisableAndReturn("Wait185", IS25LP080D_ERROR)

\* if (!SPI_Receive(IS25LP080D_SPI_LINE, &status, 1)): the device answers with
\* any status byte
Wait188 ==
    /\ pc = "Wait188"
    /\ \E ok \in BOOLEAN, st \in StatusBytes :
        /\ trace' = Append(trace, Event("rx", "status", <<st>>, 1, ok))
        /\ status' = IF ok THEN st ELSE status
        /\ pc' = IF ok THEN "Wait193" ELSE "Wait190"
    /\ UNCHANGED <<callVars, memOpcode, busyTimeout, polls, cs, ret, now, poolVars, otherVars>>

\* the failure path returning with chip-select left asserted
Wait190_NoDisable ==
    /\ pc = "Wait190"
    /\ ret' = IS25LP080D_ERROR
    /\ pc' = "idle"
    /\ UNCHANGED <<callVars, waitVars, cs, trace, now, poolVars, otherVars>>

Wait190 == DisableAndReturn("Wait190", IS25LP080D_ERROR)

Wait193 == SPI_CS_Disable("Wait193", "Wait194")

\* the loop going on while the status byte is not zero
Wait194_NonZero ==
    /\ pc = "Wait194"
    /\ IF status # 0
       THEN pc' = "Wait176" /\ UNCHANGED ret
       ELSE pc' = "idle" /\ ret' = 0
    /\ UNCHANGED <<callVars, waitVars, cs, trace, now, poolVars, otherVars>>

\* } while (status & 0x01);  return 0;
Wait194 ==
    /\ pc = "Wait194"
    /\ IF WIP(status)
       THEN pc' = "Wait176" /\ UNCHANGED ret
       ELSE pc' = "idle" /\ ret' = 0
    /\ UNCHANGED <<callVars, waitVars, cs, trace, now, poolVars, otherVars>>

(***************************************************************************)
(* The millisecond clock read by the software timer.  It is followed from  *)
(* the call of the busy-wait on, until the timeout has passed.             *)
(***************************************************************************)
WaitLoop ==
    {"Wait176", "Wait182", "Wait183", "Wait188", "Wait193", "Wait194"}

Tick ==
    /\ \/ pc = "Wait173" /\ now < TickMs
       \/ pc \in WaitLoop
            /\ ~SWTimerTimeout(busyTimeout, now, IS25LP080D_BUSY_TIMEOUT_MSEC)
    /\ now' = now + TickMs
    /\ UNCHANGED <<pc, callVars, waitVars, cs, trace, ret, poolVars, otherVars>>

DriverStep ==
    \/ Read57 \/ Read58 \/ Read60 \/ Read63 \/ Read65 \/ Read68
    \/ Program84 \/ Program85 \/ Program87 \/ Program90 \/ Program92
    \/ Program93 \/ Program95 \/ Program98 \/ Program100 \/ Program103
    \/ Program105
    \/ Erase131 \/ Erase132 \/ Erase134 \/ Erase137 \/ Erase139
    \/ Erase140 \/ Erase142 \/ Erase145 \/ Erase147
    \/ Wait173 \/ Wait176 \/ Wait178 \/ Wait179 \/ Wait180
    \/ Wait182 \/ Wait183 \/ Wait185 \/ Wait188 \/ Wait190
    \/ Wait193 \/ Wait194

NextFlash ==
    \/ IS25LP080D_Read
    \/ IS25LP080D_Program
    \/ IS25LP080D_Erase
    \/ IS25LP080D_Sync
    \/ Read57 \/ Read58 \/ Read60 \/ Read63 \/ Read65 \/ Read68
    \/ Program84 \/ Program85 \/ Program87 \/ Program90 \/ Program92
    \/ Program93 \/ Program95 \/ Program98 \/ Program100 \/ Program103
    \/ Program105
    \/ Erase131 \/ Erase132 \/ Erase134 \/ Erase137 \/ Erase139
    \/ Erase140 \/ Erase142 \/ Erase145 \/ Erase147
    \/ Wait173 \/ Wait176 \/ Wait178 \/ Wait179 \/ Wait180
    \/ Wait182 \/ Wait183 \/ Wait185 \/ Wait188 \/ Wait190
    \/ Wait193 \/ Wait194
    \/ Tick

(***************************************************************************)
(* CP23_GetFileStructure statement by statement, run by the contexts of    *)
(* Contexts on the shared pool.  Each context has its own cnt and retVal;  *)
(* `raced` remembers the slot that two contexts have both found free       *)
(* before either marked it.  The three loops after the scan are one step   *)
(* each.                                                                   *)
(***************************************************************************)
\* context c goes from statement `from` to statement `to`
Goto(c, from, to, cnt, retVal) ==
    /\ ctx[c].pc = from
    /\ ctx' = [ctx EXCEPT ![c] = [pc |-> to, cnt |-> cnt, retVal |-> retVal]]

\* the call: retVal = NULL; cnt = 0
Get38 ==
    \E c \in Contexts :
        /\ Goto(c, "idle", "Get41", 0, NoSlot)
        /\ raced' = NoSlot
        /\ UNCHANGED <<poolVars, flashVars, authVars, clearVars>>

\* for (...; cnt < CP23LFS_FILES_MAX; ...)
Get41 ==
    \E c \in Contexts :
        /\ Goto(c, "Get41",
                IF ctx[c].cnt < CP23LFS_FILES_MAX THEN "Get43" ELSE "Get51",
                ctx[c].cnt, ctx[c].retVal)
        /\ UNCHANGED <<raced, poolVars, flashVars, authVars, clearVars>>

\* if (cp23lsf_file[cnt].system.allocated == false), else cnt++
Get43 ==
    \E c \in Contexts :
        /\ ctx[c].pc = "Get43"
        /\ IF cp23lsf_file[ctx[c].cnt].allocated = FALSE
           THEN /\ Goto(c, "Get43", "Get45", ctx[c].cnt, ctx[c].retVal)
                /\ raced' =
                    IF \E d \in Contexts \ {c} :
                           ctx[d].pc = "Get45" /\ ctx[d].cnt = ctx[c].cnt
                    THEN ctx[c].cnt
                    ELSE raced
           ELSE /\ Goto(c, "Get43", "Get41", ctx[c].cnt + 1, ctx[c].retVal)
                /\ UNCHANGED raced
        /\ UNCHANGED <<poolVars, flashVars, authVars, clearVars>>

\* the mark made only if the flag is still false, the scan going on otherwise
Get45_TestAndSet ==
    \E c \in Contexts :
        /\ ctx[c].pc = "Get45"
        /\ IF cp23lsf_file[ctx[c].cnt].allocated = FALSE
           THEN /\ Goto(c, "Get45", "Get46", ctx[c].cnt, ctx[c].retVal)
                /\ cp23lsf_file' =
                    [cp23lsf_file EXCEPT ![ctx[c].cnt] = MarkAllocated(@)]
           ELSE /\ Goto(c, "Get45", "Get41", ctx[c].cnt + 1, ctx[c].retVal)
                /\ UNCHANGED cp23lsf_file
        /\ UNCHANGED <<raced, held, last, flashVars, authVars, clearVars>>

\* cp23lsf_file[cnt].system.allocated = true;
Get45 ==
    \E c \in Contexts :
        /\ Goto(c, "Get45", "Get46", ctx[c].cnt, ctx[c].retVal)
        /\ cp23lsf_file' = [cp23lsf_file EXCEPT ![ctx[c].cnt] = MarkAllocated(@)]
        /\ UNCHANGED <<raced, held, last, flashVars, authVars, clearVars>>

\* retVal = &(cp23lsf_file[cnt]);
Get46 ==
    \E c \in Contexts :
        /\ Goto(c, "Get46", "Get47", ctx[c].cnt, ctx[c].cnt)
        /\ UNCHANGED <<raced, poolVars, flashVars, authVars, clearVars>>

\* retVal->system.allocated = true; break;
Get47 ==
    \E c \in Contexts :
        /\ Goto(c, "Get47", "Get51", ctx[c].cnt, ctx[c].retVal)
        /\ cp23lsf_file' = [cp23lsf_file EXCEPT ![ctx[c].retVal] = MarkAllocated(@)]
        /\ UNCHANGED <<raced, held, last, flashVars, authVars, clearVars>>

\* if (retVal)
Get51 ==
    \E c \in Contexts :
        /\ Goto(c, "Get51",
                IF ctx[c].retVal # NoSlot THEN "Get54" ELSE "Get74",
                ctx[c].cnt, ctx[c].retVal)
        /\ UNCHANGED <<raced, poolVars, flashVars, authVars, clearVars>>

\* the two clearing loops
Get54 ==
    \E c \in Contexts :
        /\ Goto(c, "Get54", "Get63", ctx[c].cnt, ctx[c].retVal)
        /\ cp23lsf_file' = [cp23lsf_file EXCEPT ![ctx[c].retVal] = ClearRecord(@)]
        /\ UNCHANGED <<raced, held, last, flashVars, authVars, clearVars>>

\* the attribute description loop
Get63 ==
    \E c \in Contexts :
        /\ Goto(c, "Get63", "Get70", ctx[c].cnt, ctx[c].retVal)
        /\ cp23lsf_file' =
            [cp23lsf_file EXCEPT ![ctx[c].retVal] = InitDescr(ctx[c].retVal, @)]
        /\ UNCHANGED <<raced, held, last, flashVars, authVars, clearVars>>

\* the file configuration
Get70 ==
    \E c \in Contexts :
        /\ Goto(c, "Get70", "Get74", ctx[c].cnt, ctx[c].retVal)
        /\ cp23lsf_file' =
            [cp23lsf_file EXCEPT ![ctx[c].retVal] = InitFileCfg(ctx[c].retVal, @)]
        /\ UNCHANGED <<raced, held, last, flashVars, authVars, clearVars>>

\* return retVal;
Get74 ==
    \E c \in Contexts :
        /\ Goto(c, "Get74", "done", ctx[c].cnt, ctx[c].retVal)
        /\ UNCHANGED <<raced, poolVars, flashVars, authVars, clearVars>>

\* the caller has taken the value returned
GetReturned ==
    \E c \in Contexts :
        /\ Goto(c, "done", "idle", 0, NoSlot)
        /\ UNCHANGED <<raced, poolVars, flashVars, authVars, clearVars>>

NextRace ==
    \/ Get38 \/ Get41 \/ Get43 \/ Get45 \/ Get46 \/ Get47 \/ Get51
    \/ Get54 \/ Get63 \/ Get70 \/ Get74 \/ GetReturned

(***************************************************************************)
(* Specifications.                                                         *)
(***************************************************************************)
SpecPool == Init /\ [][NextPool]_vars

SpecPoolCallers == Init /\ [][NextPoolCallers]_vars

\* the decoding macros on every authorization byte
InitAuthBytes ==
    /\ InitPool
    /\ InitFlash
    /\ InitRace
    /\ InitClear
    /\ authByte \in AuthBytes
    /\ decoded = NotDecoded

SpecAuth == InitAuthBytes /\ [][NextAuth]_vars

\* acquire run by two contexts with no serialization
SpecRace == Init /\ [][NextRace]_vars

\* a record in use: marked, its tables built, its attribute fields written
UsedRecord(slot) ==
    [name \in FieldNames |->
        IF name \in PublicFields THEN 1
        ELSE InitFileCfg(slot, InitDescr(slot, MarkAllocated(ZeroRecord)))[name]]

\* the pool with any set of its slots marked allocated, one handle each
InitScan ==
    /\ \E used \in SUBSET Slots :
        /\ cp23lsf_file = [s \in Slots |-> IF s \in used THEN UsedRecord(s) ELSE ZeroRecord]
        /\ held = [s \in Slots |-> IF s \in used THEN 1 ELSE 0]
    /\ last = [op |-> "none", ret |-> NoSlot, arg |-> NoSlot, failed |-> FALSE,
               prevOp |-> "none",
               pre |-> [s \in Slots |-> ZeroRecord],
               preHeld |-> [s \in Slots |-> 0]]
    /\ InitFlash
    /\ InitAuth
    /\ InitRace
    /\ InitClear

\* two calls are followed from each pattern
NextScan ==
    \/ last.prevOp = "none" /\ CP23_GetFileStructure
    \/ last.prevOp = "none" /\ CP23_ReleaseFileStructure

\* acquire and release on every pattern of allocated flags
SpecScan == InitScan /\ [][NextScan]_vars

\* a record in use, of every size tried
InitClearSizes ==
    /\ InitPool
    /\ InitFlash
    /\ InitAuth
    /\ InitRace
    /\ recSize \in RecordSizes
    /\ \E b \in DirtyBytes : recBytes = [o \in 0 .. (recSize - 1) |-> b]
    /\ cleared = FALSE

\* the clearing loops on records of every size tried
SpecClear == InitClearSizes /\ [][NextClear]_vars

SpecFlash == Init /\ [][NextFlash]_vars

\* every transport call returns and the clock keeps advancing
SpecFlashLive == SpecFlash /\ WF_vars(DriverStep) /\ WF_vars(Tick)

(***************************************************************************)
(* Properties of the file-record pool (SpecPool).                          *)
(***************************************************************************)
\* C1: acquire never returns a slot for which an earlier returned handle has
\* not yet been released: no slot has two outstanding handles (so 8 acquires
\* in a row return 8 distinct slots).
C1_NoSlotHandedOutTwice == \A s \in Slots : held[s] <= 1

\* C2: at most 8 handles are outstanding, and an acquire called with 8
\* outstanding returns NULL.
C2_PoolExhaustion ==
    /\ Outstanding(held) <= 8
    /\ (last.op = "acquire" /\ Outstanding(last.preHeld) = 8) => last.ret = NoSlot

\* C3: a slot's allocated flag is true exactly when a handle to it has been
\* acquired and not yet released.
C3_AllocatedIffOutstanding ==
    \A s \in Slots : cp23lsf_file[s].allocated <=> (held[s] > 0)

\* C4: the record of every handle acquire returns has all its attribute
\* fields zero, descriptor i = (type i, the address of attribute i in that
\* record, the size of attribute i), fileCfg.attrs at the record's own
\* table, attr_count 7 and fileCfg.buffer at the record's own scratch buffer.
C4_AcquiredRecordFresh ==
    (last.op = "acquire" /\ last.ret # NoSlot) =>
        LET s   == last.ret
            rec == cp23lsf_file[s]
            off == <<0, 2, 13, 22, 23, 24, 56>>
            len == <<2, 11, 9, 1, 1, 32, 32>>
        IN  /\ \A name \in PublicFields : rec[name] = 0
            /\ DOMAIN rec.descr = 0 .. 6
            /\ \A i \in 0 .. 6 :
                rec.descr[i] = [type   |-> i,
                                buffer |-> [slot |-> s, off |-> off[i + 1]],
                                size   |-> len[i + 1]]
            /\ rec.fileCfg.attrs = [slot |-> s, off |-> offsetof("descr")]
            /\ rec.fileCfg.attr_count = 7
            /\ rec.fileCfg.buffer = [slot |-> s, off |-> offsetof("buffer")]

\* C4 witness: an acquire, right after a release, returned a slot that held
\* non-zero attribute data and an earlier descriptor table.
C4_Witness ==
    /\ last.op = "acquire"
    /\ last.ret # NoSlot
    /\ last.prevOp = "release"
    /\ \E name \in PublicFields : last.pre[last.ret][name] # 0
    /\ last.pre[last.ret].fileCfg.attr_count = 7

(***************************************************************************)
(* Properties of the flash driver (SpecFlash, SpecFlashLive).              *)
(***************************************************************************)
Returned == pc = "idle" /\ op # "none"

\* the call reaches the busy-wait if its transport calls succeed
Modifying == op = "program" \/ (op = "erase" /\ size \in {4096, 65536})

IsTransport(ev) == ev.e \in {"tx", "rx"}

AllTransportOk == \A i \in DOMAIN trace : IsTransport(trace[i]) => trace[i].ok

IsCs(ev) == ev.e \in {"cs_en", "cs_dis"}

IsStatusTx(ev) == ev.e = "tx" /\ ev.buf = "status"

IsStatusRx(ev) == ev.e = "rx" /\ ev.buf = "status"

IsRtt(ev) == ev.e = "rtt"

IsMee(ev) == ev.e = "mee"

CsEvents == SelectSeq(trace, IsCs)

StatusTx == SelectSeq(trace, IsStatusTx)

StatusRx == SelectSeq(trace, IsStatusRx)

RttCalls == SelectSeq(trace, IsRtt)

MeeCalls == SelectSeq(trace, IsMee)

BusyReads == {i \in DOMAIN StatusRx : StatusRx[i].data[1] % 2 = 1}

\* the opcode of the operation in progress
ExpectedOpcode ==
    IF op = "program" THEN 2 ELSE IF size = 4096 THEN 32 ELSE 216

\* C5: an erase whose size is neither 4096 nor 65536 returns the error code
\* with no chip-select assertion and no transport call.
C5_EraseRejectsUnsupportedSize ==
    (op = "erase" /\ size \notin {4096, 65536}) =>
        /\ pc = "idle"
        /\ ret = -5
        /\ trace = <<>>
        /\ ~cs

C5_Witness == pc = "idle" /\ op = "erase" /\ size = 1 /\ ret = -5

\* C6: chip-select enable and disable calls alternate starting with enable,
\* every transport call is made with chip-select asserted, and chip-select
\* is de-asserted whenever an operation has returned.
C6_ChipSelectBracketing ==
    /\ \A i \in DOMAIN CsEvents :
        CsEvents[i].e = IF i % 2 = 1 THEN "cs_en" ELSE "cs_dis"
    /\ cs <=> (Len(CsEvents) % 2 = 1)
    /\ \A i \in DOMAIN trace :
        IsTransport(trace[i]) =>
            Cardinality({j \in 1 .. (i - 1) : IsCs(trace[j])}) % 2 = 1
    /\ pc = "idle" => ~cs

\* C6 witness: an erase returned after the receive of a status poll failed.
C6_Witness ==
    /\ Returned
    /\ op = "erase"
    /\ ret = -5
    /\ Len(trace) >= 2
    /\ IsStatusRx(trace[Len(trace) - 1])
    /\ ~trace[Len(trace) - 1].ok
    /\ trace[Len(trace)].e = "cs_dis"
    /\ ~cs

\* C7: a program or erase whose transport calls all succeed and whose status
\* reads all show write-in-progress returns the error code once the 2000 ms
\* have passed, after exactly one RTT_Printf and one ManageEventError (second
\* argument true), both with the opcode of the operation.
C7_TimeoutReported ==
    /\ (Returned /\ Modifying /\ AllTransportOk /\ BusyReads = DOMAIN StatusRx) =>
        /\ ret = -5
        /\ now - busyTimeout >= 2000
        /\ RttCalls = << [e |-> "rtt", buf |-> "", data |-> <<ExpectedOpcode>>,
                          n |-> 0, ok |-> TRUE] >>
        /\ MeeCalls = << [e |-> "mee", buf |-> "", data |-> <<ExpectedOpcode>>,
                          n |-> 0, ok |-> TRUE] >>
    /\ Len(RttCalls) <= 1
    /\ Len(MeeCalls) <= Len(RttCalls)

\* C7 witness: a 65536-byte erase timed out after at least two busy polls.
C7_Witness ==
    /\ Returned
    /\ op = "erase"
    /\ size = 65536
    /\ AllTransportOk
    /\ Len(StatusRx) >= 2
    /\ BusyReads = DOMAIN StatusRx
    /\ Len(MeeCalls) = 1

\* C8: a program or erase whose transport calls all succeed and that is not
\* timed out returns 0 after exactly N + 1 read-status transactions, N being
\* the number of busy status bytes: N busy reads, then one ready read, each
\* transaction one 1-byte transmit of 0x05 and one 1-byte receive inside one
\* chip-select bracket.
C8_PollCount ==
    (Returned /\ Modifying /\ AllTransportOk /\ RttCalls = <<>>) =>
        LET N     == Cardinality(BusyReads)
            first == Len(trace) - 4 * (N + 1)
        IN  /\ ret = 0
            /\ Len(StatusRx) = N + 1
            /\ Len(StatusTx) = N + 1
            /\ BusyReads = 1 .. N
            /\ first >= 0
            /\ \A k \in 0 .. N :
                /\ trace[first + 4 * k + 1].e = "cs_en"
                /\ trace[first + 4 * k + 2] =
                     [e |-> "tx", buf |-> "status", data |-> <<5>>, n |-> 1, ok |-> TRUE]
                /\ IsStatusRx(trace[first + 4 * k + 3])
                /\ trace[first + 4 * k + 3].n = 1
                /\ trace[first + 4 * k + 4].e = "cs_dis"

\* C8 witness: a program returned 0 after two busy reads and one ready read.
C8_Witness ==
    /\ Returned
    /\ op = "program"
    /\ ret = 0
    /\ Len(StatusRx) = 3
    /\ Cardinality(BusyReads) = 2

\* C9: every call in progress eventually returns, whatever the device
\* answers, provided transport calls return and the clock advances.
C9_CallsReturn == (pc # "idle") ~> (pc = "idle")

\* C9 witness: the timeout branch is taken after the device was polled busy
\* until the budget was spent.
C9_Witness ==
    /\ pc = "Wait178"
    /\ Len(StatusRx) >= 2
    /\ BusyReads = DOMAIN StatusRx
    /\ now - busyTimeout >= 2000

\* C10: the operations return only 0 or -5; once a transport call has failed
\* no further transport call is made (only the chip-select release follows)
\* and the operation returns -5.
C10_FailurePropagates ==
    /\ pc = "idle" => ret \in {0, -5}
    /\ (Returned /\ op = "sync") => (ret = 0 /\ trace = <<>>)
    /\ \A i \in DOMAIN trace :
        (IsTransport(trace[i]) /\ ~trace[i].ok) =>
            /\ i >= Len(trace) - 1
            /\ \A j \in (i + 1) .. Len(trace) : trace[j].e = "cs_dis"
            /\ pc = "idle" => ret = -5
            /\ pc # "idle" => i = Len(trace)

\* C10 witness: a program returned after the transmit of its payload failed.
C10_Witness ==
    /\ Returned
    /\ op = "program"
    /\ ret = -5
    /\ Len(trace) >= 2
    /\ trace[Len(trace) - 1].e = "tx"
    /\ trace[Len(trace) - 1].buf = "buffer"
    /\ ~trace[Len(trace) - 1].ok

\* the events of the command phase of a program (7) or an erase (6) whose
\* transport calls succeed
CommandPhase == IF op = "program" THEN 7 ELSE 6

IsWrenTx(ev) == ev.e = "tx" /\ ev.buf = "wren"

IsCmdTx(ev) == ev.e = "tx" /\ ev.buf = "cmd"

IsPayloadTx(ev) == ev.e = "tx" /\ ev.buf = "buffer"

\* C11: in every program and every erase of a legal size the 1-byte
\* write-enable (0x06) is transmitted in a chip-select bracket of its own,
\* closed before the 4-byte command is transmitted; the payload of a program
\* follows the command in the command's bracket; a status poll is made only
\* after the command bracket was closed with all its transmits successful.
C11_CommandOrdering ==
    Modifying =>
        \A i \in DOMAIN trace :
            /\ IsWrenTx(trace[i]) =>
                /\ i = 2
                /\ trace[1].e = "cs_en"
                /\ trace[i].data = <<6>>
                /\ trace[i].n = 1
            /\ IsCmdTx(trace[i]) =>
                /\ i = 5
                /\ IsWrenTx(trace[2]) /\ trace[2].ok
                /\ trace[3].e = "cs_dis"
                /\ trace[4].e = "cs_en"
                /\ trace[i].n = 4
            /\ IsPayloadTx(trace[i]) =>
                /\ op = "program"
                /\ i = 6
                /\ IsCmdTx(trace[5]) /\ trace[5].ok
                /\ trace[i].n = size
            /\ IsStatusTx(trace[i]) =>
                /\ i > CommandPhase + 1
                /\ trace[CommandPhase].e = "cs_dis"
                /\ IsCmdTx(trace[5])
                /\ op = "program" => IsPayloadTx(trace[6])
                /\ \A j \in 1 .. CommandPhase : IsTransport(trace[j]) => trace[j].ok

\* C11 witness: a 4096-byte erase went through write-enable, command and a
\* status poll and returned 0.
C11_Witness ==
    /\ Returned
    /\ op = "erase"
    /\ size = 4096
    /\ ret = 0
    /\ Len(StatusTx) >= 1
    /\ IsCmdTx(trace[5])

\* C12: a read is one chip-select bracket holding the transmit of the 4-byte
\* read command and, only if that transmit succeeded, one receive of size
\* bytes; it sends no write-enable, polls no status, calls no timeout hook,
\* and returns 0 exactly when both phases succeeded.
C12_ReadProtocol ==
    op = "read" =>
        /\ Len(trace) <= 4
        /\ \A i \in DOMAIN trace :
            /\ i = 1 => trace[i].e = "cs_en"
            /\ i = 2 => trace[i] = [e |-> "tx", buf |-> "cmd", data |-> cmd, n |-> 4,
                                    ok |-> trace[i].ok]
            /\ i = 3 => IF trace[2].ok
                        THEN trace[i] = [e |-> "rx", buf |-> "buffer", data |-> <<>>,
                                         n |-> size, ok |-> trace[i].ok]
                        ELSE trace[i].e = "cs_dis"
            /\ i = 4 => trace[2].ok /\ trace[i].e = "cs_dis"
        /\ pc = "idle" =>
            /\ trace[Len(trace)].e = "cs_dis"
            /\ Len(trace) = IF trace[2].ok THEN 4 ELSE 3
            /\ ret = 0 <=> (trace[2].ok /\ trace[3].e = "rx" /\ trace[3].ok)
            /\ ret # 0 => ret = -5

\* C12 witness: a read returned the error code after its command went out
\* and its receive failed.
C12_Witness ==
    /\ Returned
    /\ op = "read"
    /\ ret = -5
    /\ Len(trace) = 4
    /\ trace[3].e = "rx"
    /\ ~trace[3].ok

(***************************************************************************)
(* Properties of the pool with callers that misuse release                 *)
(* (SpecPoolCallers).                                                      *)
(***************************************************************************)
\* C13 as claimed: a release of a handle that is not outstanding, its slot
\* being free (a second release with no acquire in between), is detected as
\* a precondition failure.
C13_ReleaseOfFreeSlotDetected ==
    (/\ last.op = "release"
     /\ last.arg # NoSlot
     /\ last.preHeld[last.arg] = 0
     /\ ~last.pre[last.arg].allocated) => last.failed

\* C13 as amended: release checks its handle for NULL only; called on a
\* non-NULL handle, also one whose slot is free, it raises no precondition
\* failure and leaves the slot free.
C13_ReleaseChecksNullOnly ==
    (last.op = "release" /\ last.arg # NoSlot) =>
        /\ ~last.failed
        /\ ~cp23lsf_file[last.arg].allocated

\* C13 witness: the same handle released twice in a row, the second time
\* with its slot free, without a failure.
C13_Witness ==
    /\ last.op = "release"
    /\ last.prevOp = "release"
    /\ last.arg # NoSlot
    /\ last.preHeld[last.arg] = 0
    /\ ~last.pre[last.arg].allocated
    /\ ~last.failed

(***************************************************************************)
(* Properties of the authorization decoding (SpecAuth).                    *)
(***************************************************************************)
\* C14: the macros give the four 2-bit fields USER (bits 0-1), MANUFACTURER
\* (bits 2-3), BP (bits 4-5), SYSTEM (bits 6-7): the byte is
\* user + 4 * mnf + 16 * bp + 64 * sys, and 0xF4 decodes to 0, 1, 3, 3.
C14_AuthorizationDecoding ==
    decoded.done =>
        /\ {decoded.user, decoded.mnf, decoded.bp, decoded.sys} \subseteq 0 .. 3
        /\ decoded.user + 4 * decoded.mnf + 16 * decoded.bp + 64 * decoded.sys = authByte
        /\ authByte = 244 =>
            /\ decoded.user = 0
            /\ decoded.mnf = 1
            /\ decoded.bp = 3
            /\ decoded.sys = 3

\* C14 witness: the byte 0xF4 has been decoded.
C14_Witness == decoded.done /\ authByte = 244

\* the timer test of the busy-wait has come out true in the call in progress
TimeoutDeclared == pc \in {"Wait178", "Wait179", "Wait180"} \/ RttCalls # <<>>

\* the last status byte received shows write-in-progress as given
LastStatusBusy(b) ==
    /\ StatusRx # <<>>
    /\ StatusRx[Len(StatusRx)].ok
    /\ WIP(StatusRx[Len(StatusRx)].data[1]) = b

\* a program or erase returns 0 only after a last status byte with bit 0 clear
C15_ReadyOnlyOnClearBit == (Returned /\ Modifying /\ ret = 0) => LastStatusBusy(FALSE)

\* a successful status read with bit 0 clear is the last poll and the call
\* returns 0
C15_ClearBitEndsPolling ==
    \A i \in DOMAIN StatusRx :
        (StatusRx[i].ok /\ ~WIP(StatusRx[i].data[1])) =>
            /\ i = Len(StatusRx)
            /\ i = Len(StatusTx)
            /\ ~TimeoutDeclared
            /\ pc = "idle" => ret = 0

\* a timeout is declared only after a status read that showed bit 0 set
C15_TimeoutOnlyAfterBusyRead == TimeoutDeclared => LastStatusBusy(TRUE)

\* C15: program/erase returns 0 only if the last status byte received had
\* bit 0 clear, a successful status read with bit 0 clear ends the call with
\* 0 and no further poll, and a timeout is declared only after a status read
\* that showed bit 0 set, never before the first status read of the call.
C15_BusyWaitDecisionRule ==
    /\ C15_ReadyOnlyOnClearBit
    /\ C15_ClearBitEndsPolling
    /\ C15_TimeoutOnlyAfterBusyRead

(***************************************************************************)
(* Properties of acquire run by two contexts (SpecRace).                   *)
(***************************************************************************)
\* C16: no statement of acquire locks the pool: once two contexts have both
\* found the same slot free before either marked it, both go on with that
\* slot, and when both have returned both hold a handle to it.
C16_RacingAcquirersShareSlot ==
    (raced # NoSlot /\ \A c \in Contexts : ctx[c].pc = "done") =>
        \A c \in Contexts : ctx[c].retVal = raced

\* C16 witness: both contexts passed the free check of slot 0 before either
\* marked it, and both have returned a handle to slot 0.
C16_Witness ==
    /\ raced = 0
    /\ \A c \in Contexts : ctx[c].pc = "done" /\ ctx[c].retVal = 0

\* the opcode byte of the addressed command of the operation in progress
FrameOpcode ==
    IF op = "read" THEN 3
    ELSE IF op = "program" THEN 2
    ELSE IF size = 4096 THEN 32 ELSE 216

\* C17: the command transmitted by read, program and erase is the 4 bytes
\* opcode, (a >> 16) & 0xFF, (a >> 8) & 0xFF, a & 0xFF for the address a of
\* the call (a < 2^20), with opcode 0x03 for read, 0x02 for program, 0x20 for
\* a 4096-byte erase and 0xD8 for a 65536-byte erase; write-enable and
\* read-status are transmitted as 1 byte, 0x06 and 0x05.
C17_CommandFraming ==
    \A i \in DOMAIN trace :
        /\ IsCmdTx(trace[i]) =>
            /\ addr < 1048576
            /\ op = "erase" => size \in {4096, 65536}
            /\ trace[i].n = 4
            /\ trace[i].data = <<FrameOpcode,
                                 (addr \div 65536) % 256,
                                 (addr \div 256) % 256,
                                 addr % 256>>
        /\ IsWrenTx(trace[i]) => (trace[i].n = 1 /\ trace[i].data = <<6>>)
        /\ IsStatusTx(trace[i]) => (trace[i].n = 1 /\ trace[i].data = <<5>>)

\* C17 witness: a 65536-byte erase at 0x012345 has transmitted D8 01 23 45
\* after its write-enable and has polled the status.
C17_Witness ==
    /\ op = "erase"
    /\ size = 65536
    /\ addr = 74565
    /\ \E i \in DOMAIN trace :
        IsCmdTx(trace[i]) /\ trace[i].data = <<216, 1, 35, 69>>
    /\ \E i \in DOMAIN trace : IsWrenTx(trace[i])
    /\ \E i \in DOMAIN trace : IsStatusTx(trace[i])

(***************************************************************************)
(* Properties of the scan and of the pool's frame (SpecScan).              *)
(***************************************************************************)
\* the slots whose allocated flag was false when the last operation began
FreeBefore == {s \in Slots : last.pre[s].allocated = FALSE}

\* C18: whenever at least one slot is free (its allocated flag is false),
\* acquire returns the free slot of lowest index, and it returns NULL only
\* when no slot is free.
C18_FirstFreeSelection ==
    last.op = "acquire" =>
        IF FreeBefore = {}
        THEN last.ret = NoSlot
        ELSE /\ last.ret \in FreeBefore
             /\ \A s \in FreeBefore : last.ret <= s

\* C18 witness: acquire returned slot 3 with slots 0, 1, 2 allocated and
\* slot 5 free as well.
C18_Witness ==
    /\ last.op = "acquire"
    /\ last.ret = 3
    /\ \A s \in 0 .. 2 : last.pre[s].allocated
    /\ 5 \in FreeBefore

\* C19: release changes nothing but the allocated flag of the slot it is
\* given (the slot's attribute fields and descriptor table keep their values,
\* no other slot changes); acquire changes only the slot it returns, and an
\* acquire that returns NULL changes no slot.
C19_PoolFrame ==
    /\ last.op = "release" =>
        cp23lsf_file = [last.pre EXCEPT ![last.arg].allocated = FALSE]
    /\ (last.op = "acquire" /\ last.ret # NoSlot) =>
        \A s \in Slots \ {last.ret} : cp23lsf_file[s] = last.pre[s]
    /\ (last.op = "acquire" /\ last.ret = NoSlot) => cp23lsf_file = last.pre

\* C19 witness: slot 2, allocated with its fields written and its table
\* built, has been released with slot 1 in use beside it.
C19_Witness ==
    /\ last.op = "release"
    /\ last.arg = 2
    /\ last.pre[2] = UsedRecord(2)
    /\ last.pre[1] = UsedRecord(1)
    /\ ~cp23lsf_file[2].allocated
    /\ cp23lsf_file[2].owner = 1
    /\ cp23lsf_file[2].descr = UsedRecord(2).descr
    /\ cp23lsf_file[1] = UsedRecord(1)

IsHook(ev) == IsRtt(ev) \/ IsMee(ev)

HookCalls == SelectSeq(trace, IsHook)

\* C20: RTT_Printf and ManageEventError are called only when the busy-wait
\* declares a timeout: a call that returns 0, a call that fails on a failed
\* transmit or receive (a failed status poll included), an erase rejected for
\* its size, and every read or sync call none of the two.
C20_DiagnosticsOnlyOnTimeout ==
    /\ HookCalls # <<>> =>
        /\ Modifying
        /\ AllTransportOk
        /\ now - busyTimeout >= 2000
        /\ pc \in {"Wait179", "Wait180", "idle"}
        /\ pc = "idle" => ret = -5
    /\ (Returned /\ ret = 0) => HookCalls = <<>>
    /\ ~AllTransportOk => HookCalls = <<>>
    /\ (op = "erase" /\ size \notin {4096, 65536}) => HookCalls = <<>>
    /\ op \in {"read", "sync"} => HookCalls = <<>>

\* C20 witness: an erase returned the error code after a status receive
\* failed on its second poll, with neither hook called.
C20_Witness ==
    /\ Returned
    /\ op = "erase"
    /\ ret = -5
    /\ Len(StatusRx) = 2
    /\ ~StatusRx[2].ok
    /\ HookCalls = <<>>

(***************************************************************************)
(* Properties of the clearing loops (SpecClear).                           *)
(***************************************************************************)
\* the bytes of the record that are still not zero
NotZeroed == {o \in 0 .. (recSize - 1) : recBytes[o] # 0}

C21_TailLeftBehind ==
    cleared =>
        NotZeroed =
            IF recSize < 4 THEN {}
            ELSE {o \in (recSize - (recSize % 4)) .. (recSize - 1) : o >= recSize % 4}

\* the record of the program, whose size is a multiple of 4, is cleared whole
C21_FileStructureCleared ==
    (cleared /\ recSize = sizeofFileStructure) =>
        (recSize % 4 = 0 /\ NotZeroed = {})

====
